---- MODULE Spec2Model ----
(***************************************************************************)
(* Model of the SM83 processor core of caduard0/gameboy-emulator:          *)
(* src/processor.rs (register file, flags, flat memory) and                *)
(* src/instructions.rs (instruction routines).                             *)
(*                                                                         *)
(* A processor value is a record                                           *)
(*   [registers, stack_pointer, program_counter, memory, panicked]         *)
(* Routines of the source are operators from processor value to processor  *)
(* value, statement by statement.  A Rust panic (expect on a checked       *)
(* operation) ends the run: the routine stops where it panicked and the    *)
(* field panicked becomes TRUE.                                            *)
(*                                                                         *)
(* memory is the 64 KiB array, kept as the function of its non-zero cells: *)
(* Processor::new() zero-fills it, so a cell outside DOMAIN memory is 0.   *)
(***************************************************************************)
EXTENDS Integers, Sequences, FiniteSets, TLC

VARIABLES registers, stack_pointer, program_counter, memory, panicked,
          cycles, last, pre, steps

vars == <<registers, stack_pointer, program_counter, memory, panicked,
          cycles, last, pre, steps>>

\* ------------------------------------------------------------------ bounds
\* Number of calls made on one processor in a run.
MaxSteps == 2

\* ------------------------------------------------------- program constants
Register_A == 0
Register_F == 1
Register_B == 2
Register_C == 3
Register_D == 4
Register_E == 5
Register_H == 6
Register_L == 7

Flag_Z == 128
Flag_N == 64
Flag_H == 32
Flag_C == 16

\* -------------------------------------------------------------- input sets
Register == 0 .. 7
Flag == {Flag_Z, Flag_N, Flag_H, Flag_C}

\* The registers the INC r8 / DEC r8 wrappers (inc_a .. inc_l) are bound to.
R8 == {Register_A, Register_B, Register_C, Register_D,
       Register_E, Register_H, Register_L}

\* The pairs the INC r16 / DEC r16 wrappers (inc_bc, inc_de, inc_hl) use.
R16 == {<<Register_B, Register_C>>, <<Register_D, Register_E>>,
        <<Register_H, Register_L>>}

\* Byte values handed to write_register and write_memory.
ByteVals == {0, 1, 15, 16, 204, 255}

\* Addresses handed to write_memory: ROM, working RAM and its echo.
MemAddrs == {0, 256, 49168, 57360}

\* Instruction words handed to the LD r16,n16 and LD SP,n16 routines.
WordVals == {255, 52651, 65280}

\* Instruction words handed to the LD r8,n8, LD [r16],A and LDH routines.
ImmVals == {1, 256, 43776}

\* Values assigned to the public field stack_pointer.
SpVals == {255, 256, 65535}

\* Cartridge files handed to load_cartridge.  The header bytes that vary are
\* the first title byte (0x134: 'A' or the invalid UTF-8 byte 0xFF), the
\* cartridge type (0x147: ROM only, MBC1, no arm), the RAM size (0x149: no
\* RAM, no arm) and the stored checksum (0x14D: the checksum of the header or
\* one more); the ROM bytes that vary are those at 0x0100 and 0x3FFF.
RECURSIVE ByteSum(_, _, _)
ByteSum(f, from, to) ==
    IF from > to THEN 0
    ELSE (IF from \in DOMAIN f THEN f[from] ELSE 0) + ByteSum(f, from + 1, to)

\* checksum = checksum - byte - 1 over 0x0134 .. 0x014C, mod 256, from 0
HeaderChecksum(f) == (0 - (ByteSum(f, 308, 332) + 25)) % 256

NonZeroCells(f) == [x \in {y \in DOMAIN f : f[y] # 0} |-> f[x]]

CartridgeBytes(t, ty, ram, off, d1, d2) ==
    LET header == 308 :> t @@ 327 :> ty @@ 329 :> ram
    IN NonZeroCells(header @@ 333 :> ((HeaderChecksum(header) + off) % 256)
                    @@ 256 :> d1 @@ 16383 :> d2)

CartridgeFiles ==
    {[open |-> FALSE, read |-> FALSE, stdout |-> TRUE, bytes |-> << >>],
     [open |-> TRUE, read |-> FALSE, stdout |-> TRUE, bytes |-> << >>]} \cup
    {[open |-> TRUE, read |-> TRUE, stdout |-> out,
      bytes |-> CartridgeBytes(t, ty, ram, off, d1, d2)] :
        out \in BOOLEAN,
        t \in {65, 255}, ty \in {0, 1, 4}, ram \in {0, 6}, off \in {0, 1},
        d1 \in {0, 171}, d2 \in {0, 1}}

\* ------------------------------------------------------------ bit helpers
RECURSIVE BitAnd(_, _)
BitAnd(a, b) ==
    IF a = 0 \/ b = 0 THEN 0
    ELSE (a % 2) * (b % 2) + 2 * BitAnd(a \div 2, b \div 2)

RECURSIVE BitOr(_, _)
BitOr(a, b) ==
    IF a = 0 THEN b
    ELSE IF b = 0 THEN a
    ELSE (IF (a % 2) + (b % 2) > 0 THEN 1 ELSE 0)
         + 2 * BitOr(a \div 2, b \div 2)

\* !x on a u8
Not8(a) == 255 - a

\* x << n on a u8: the bits shifted out are dropped
Shl8(a, n) == (a * (2 ^ n)) % 256

\* x << n on a u16
Shl16(a, n) == (a * (2 ^ n)) % 65536

\* x >> n
Shr(a, n) == a \div (2 ^ n)

\* ----------------------------------------------------------- endian codec
to_u16(b0, b1) == BitOr(Shl16(b0, 8), b1)

\* to_u8 with the shift of the high half forgotten
to_u8_no_shift(b) == <<b % 256, b % 256>>

to_u8(b) == <<Shr(b, 8) % 256, b % 256>>

\* --------------------------------------------------------------- Processor
new ==
    [ registers       |-> [i \in Register |-> 0],
      stack_pointer   |-> 0,
      program_counter |-> 0,
      memory          |-> << >>,
      panicked        |-> FALSE ]

\* panic!/expect: the routine stops, the process is gone
panic(cpu) == [cpu EXCEPT !.panicked = TRUE]

\* write_register storing one slot too far (register indices counted from 1)
write_register_next_slot(cpu, index, value) ==
    [cpu EXCEPT !.registers[(index + 1) % 8] = value]

write_register(cpu, index, value) ==
    [cpu EXCEPT !.registers[index] = value]

read_register(cpu, index) == cpu.registers[index]

set_flag(cpu, flag) == write_register(cpu, Register_F, flag)

reset_flag(cpu, flag) == write_register(cpu, Register_F, Not8(flag))

read_flags(cpu) == read_register(cpu, Register_F)

write_memory(cpu, address, value) ==
    LET dom == IF value = 0 THEN DOMAIN cpu.memory \ {address}
               ELSE DOMAIN cpu.memory \cup {address}
    IN [cpu EXCEPT !.memory =
           [x \in dom |-> IF x = address THEN value ELSE cpu.memory[x]]]

read_memory(cpu, address) ==
    IF address \in DOMAIN cpu.memory THEN cpu.memory[address] ELSE 0

\* ---------------------------------------------------------- load_cartridge
\* A call of load_cartridge is given [open, read, stdout, bytes]: open is
\* whether File::open succeeds, read whether file.read does (it fails on a
\* directory), stdout whether println! can write to the standard output (a
\* println! that cannot panics), and bytes is the zero-filled read buffer
\* after file.read, kept as the function of its non-zero cells.
byte_at(bytes, i) == IF i \in DOMAIN bytes THEN bytes[i] ELSE 0

wrapping_add(x, y) == (x + y) % 256

wrapping_sub(x, y) == (x - y) % 256

\* bytes[from .. to - 1] as a sequence
slice(bytes, from, to) == [k \in 1 .. (to - from) |-> byte_at(bytes, from + k - 1)]

\* std::str::from_utf8(s).is_ok()
is_cont(s, k, lo, hi) == k <= Len(s) /\ s[k] >= lo /\ s[k] <= hi

RECURSIVE utf8_ok(_, _)
utf8_ok(s, k) ==
    IF k > Len(s) THEN TRUE
    ELSE IF s[k] < 128 THEN utf8_ok(s, k + 1)
    ELSE IF s[k] >= 194 /\ s[k] <= 223
         THEN is_cont(s, k + 1, 128, 191) /\ utf8_ok(s, k + 2)
    ELSE IF s[k] = 224
         THEN is_cont(s, k + 1, 160, 191) /\ is_cont(s, k + 2, 128, 191)
              /\ utf8_ok(s, k + 3)
    ELSE IF (s[k] >= 225 /\ s[k] <= 236) \/ s[k] = 238 \/ s[k] = 239
         THEN is_cont(s, k + 1, 128, 191) /\ is_cont(s, k + 2, 128, 191)
              /\ utf8_ok(s, k + 3)
    ELSE IF s[k] = 237
         THEN is_cont(s, k + 1, 128, 159) /\ is_cont(s, k + 2, 128, 191)
              /\ utf8_ok(s, k + 3)
    ELSE IF s[k] = 240
         THEN is_cont(s, k + 1, 144, 191) /\ is_cont(s, k + 2, 128, 191)
              /\ is_cont(s, k + 3, 128, 191) /\ utf8_ok(s, k + 4)
    ELSE IF s[k] >= 241 /\ s[k] <= 243
         THEN is_cont(s, k + 1, 128, 191) /\ is_cont(s, k + 2, 128, 191)
              /\ is_cont(s, k + 3, 128, 191) /\ utf8_ok(s, k + 4)
    ELSE IF s[k] = 244
         THEN is_cont(s, k + 1, 128, 143) /\ is_cont(s, k + 2, 128, 191)
              /\ is_cont(s, k + 3, 128, 191) /\ utf8_ok(s, k + 4)
    ELSE FALSE

\* let tittle = &bytes[0x0134..0x0143]; from_utf8(tittle).unwrap()
tittle_ok(bytes) == utf8_ok(slice(bytes, 308, 323), 1)

\* for i in 0x0134..=0x014C { sum = sum.wrapping_sub(bytes[i].wrapping_add(1)) }
RECURSIVE header_sum(_, _, _)
header_sum(bytes, i, sum) ==
    IF i > 332 THEN sum
    ELSE header_sum(bytes, i + 1,
                    wrapping_sub(sum, wrapping_add(byte_at(bytes, i), 1)))

\* The codes the match on bytes[0x147] has an arm for.
cartridge_types ==
    {0, 1, 2, 3, 5, 6, 8, 9, 11, 12, 13, 15, 16, 17, 18, 19,
     25, 26, 27, 28, 29, 30, 32, 34, 252, 253, 254, 255}

\* The codes the match on bytes[0x149] has an arm for.
ram_sizes == 0 .. 5

\* Number of bytes copied into memory: self.memory[0..8000]
rom_copy_len == 8000

\* The panic load_cartridge ends in, by its message ("none": it returns).
load_cartridge_panic(file) ==
    IF ~file.open THEN "couldn't open"
    ELSE IF ~file.read THEN "couldn't read"
    ELSE IF ~tittle_ok(file.bytes) THEN "Utf8Error"
    ELSE IF ~file.stdout THEN "failed printing to stdout"
    ELSE IF header_sum(file.bytes, 308, 0) # byte_at(file.bytes, 333)
         THEN "Cartridge corrupted"
    ELSE IF byte_at(file.bytes, 327) \notin cartridge_types
         THEN "invalid cartridge type"
    ELSE IF byte_at(file.bytes, 329) \notin ram_sizes
         THEN "invalid cartridge RAM type"
    ELSE IF byte_at(file.bytes, 327) # 0
         THEN "assertion failed: bytes[0x147] == 0"
    ELSE "none"

\* self.memory[0..8000].copy_from_slice(&bytes[0..8000])
copy_rom(cpu, bytes) ==
    LET dom == {x \in DOMAIN cpu.memory : x >= rom_copy_len}
               \cup {x \in DOMAIN bytes : x < rom_copy_len}
    IN [cpu EXCEPT !.memory =
           [x \in dom |-> IF x < rom_copy_len THEN bytes[x] ELSE cpu.memory[x]]]

\* load_cartridge with the copy made before the header is examined.
load_cartridge_copy_first(cpu, file) ==
    IF ~file.open \/ ~file.read THEN panic(cpu)
    ELSE IF load_cartridge_panic(file) # "none"
         THEN panic(copy_rom(cpu, file.bytes))
    ELSE copy_rom(cpu, file.bytes)

load_cartridge(cpu, file) ==
    IF load_cartridge_panic(file) # "none" THEN panic(cpu)
    ELSE copy_rom(cpu, file.bytes)

\* ------------------------------------------------------------ instructions
\* INC r8
increase_register(cpu, register) ==
    IF read_register(cpu, register) + 1 > 255
    THEN panic(cpu)                         \* checked_add(1).expect("overflow")
    ELSE
      LET register_increment == read_register(cpu, register) + 1
          c1 == write_register(cpu, register, register_increment)
          h  == BitAnd(BitAnd(register_increment - 1, 15)
                       + BitAnd(register_increment, 15), 16)
          c2 == IF register_increment = 0 THEN set_flag(c1, Flag_Z) ELSE c1
          c3 == reset_flag(c2, Flag_N)
          c4 == IF h = 16 THEN set_flag(c3, Flag_H) ELSE c3
      IN c4

\* INC [HL]
inc_hlp(cpu) ==
    LET memory_position == to_u16(read_register(cpu, Register_H),
                                  read_register(cpu, Register_L))
    IN
    IF read_memory(cpu, memory_position) + 1 > 255
    THEN panic(cpu)
    ELSE
      LET register_increment == read_memory(cpu, memory_position) + 1
          c1 == write_memory(cpu, memory_position, register_increment)
          h  == BitAnd(BitAnd(register_increment - 1, 15)
                       + BitAnd(register_increment, 15), 16)
          c2 == IF register_increment = 0 THEN set_flag(c1, Flag_Z) ELSE c1
          c3 == reset_flag(c2, Flag_N)
          c4 == IF h = 16 THEN set_flag(c3, Flag_H) ELSE c3
      IN c4

\* DEC r8
decrease_register(cpu, register) ==
    IF read_register(cpu, register) - 1 < 0
    THEN panic(cpu)                         \* checked_sub(1).expect("underflow")
    ELSE
      LET register_decrement == read_register(cpu, register) - 1
          c1 == write_register(cpu, register, register_decrement)
          h  == BitAnd(register_decrement, 15)
          c2 == IF register_decrement = 0 THEN set_flag(c1, Flag_Z) ELSE c1
          c3 == set_flag(c2, Flag_N)
          c4 == IF h = 0 THEN set_flag(c3, Flag_H) ELSE c3
      IN c4

\* DEC [HL]  (the address is built from L first, then H)
dec_hlp(cpu) ==
    LET memory_position == to_u16(read_register(cpu, Register_L),
                                  read_register(cpu, Register_H))
    IN
    IF read_memory(cpu, memory_position) - 1 < 0
    THEN panic(cpu)
    ELSE
      LET register_decrement == read_memory(cpu, memory_position) - 1
          c1 == write_memory(cpu, memory_position, register_decrement)
          h  == BitAnd(register_decrement, 15)
          c2 == IF register_decrement = 0 THEN set_flag(c1, Flag_Z) ELSE c1
          c3 == set_flag(c2, Flag_N)
          c4 == IF h = 0 THEN set_flag(c3, Flag_H) ELSE c3
      IN c4

\* increase_double_register with the carry into the high register lost:
\* only the low register is written.
increase_double_register_low_only(cpu, register_a, register_b) ==
    LET register_value == to_u16(read_register(cpu, register_a),
                                 read_register(cpu, register_b))
    IN
    IF register_value + 1 > 65535
    THEN panic(cpu)
    ELSE write_register(cpu, register_b, to_u8(register_value + 1)[2])

\* INC r16
increase_double_register(cpu, register_a, register_b) ==
    LET register_value == to_u16(read_register(cpu, register_a),
                                 read_register(cpu, register_b))
    IN
    IF register_value + 1 > 65535
    THEN panic(cpu)                         \* checked_add(1).expect("overflow")
    ELSE
      LET register_increment == register_value + 1
          value_a == to_u8(register_increment)[1]
          value_b == to_u8(register_increment)[2]
          c1 == write_register(cpu, register_a, value_a)
          c2 == write_register(c1, register_b, value_b)
      IN c2

\* INC SP
inc_sp(cpu) ==
    IF cpu.stack_pointer + 1 > 65535
    THEN panic(cpu)
    ELSE [cpu EXCEPT !.stack_pointer = cpu.stack_pointer + 1]

\* DEC r16
decrease_double_register(cpu, register_a, register_b) ==
    LET register_value == to_u16(read_register(cpu, register_a),
                                 read_register(cpu, register_b))
    IN
    IF register_value - 1 < 0
    THEN panic(cpu)                         \* checked_sub(1).expect("overflow")
    ELSE
      LET register_increment == register_value - 1
          value_a == to_u8(register_increment)[1]
          value_b == to_u8(register_increment)[2]
          c1 == write_register(cpu, register_a, value_a)
          c2 == write_register(c1, register_b, value_b)
      IN c2

\* DEC SP
dec_sp(cpu) ==
    IF cpu.stack_pointer - 1 < 0
    THEN panic(cpu)
    ELSE [cpu EXCEPT !.stack_pointer = cpu.stack_pointer - 1]

\* load_double_register_value without the byte swap of the immediate
load_double_register_value_no_swap(cpu, instruction, register_a, register_b) ==
    LET value_a == to_u8(instruction)[1]
        value_b == to_u8(instruction)[2]
        c1 == write_register(cpu, register_a, value_a)
    IN write_register(c1, register_b, value_b)

\* LD r16 n16
load_double_register_value(cpu, instruction, register_a, register_b) ==
    LET value_b == to_u8(instruction)[1]
        value_a == to_u8(instruction)[2]
        c1 == write_register(cpu, register_a, value_a)
    IN write_register(c1, register_b, value_b)

\* LD SP n16
ld_sp_n16(cpu, instruction) ==
    LET value_b == to_u8(instruction)[1]
        value_a == to_u8(instruction)[2]
    IN [cpu EXCEPT !.stack_pointer = to_u16(value_a, value_b)]

\* LD [HL] r8
load_hlp_register(cpu, register) ==
    LET memory_address == to_u16(read_register(cpu, Register_H),
                                 read_register(cpu, Register_L))
    IN write_memory(cpu, memory_address, read_register(cpu, register))

\* LD [HL] n8
ld_hlp_n8(cpu, instruction) ==
    LET memory_address == to_u16(read_register(cpu, Register_H),
                                 read_register(cpu, Register_L))
        value == Shr(instruction, 8) % 256
    IN write_memory(cpu, memory_address, value)

\* LD r8 [HL]
load_register_hlp(cpu, register) ==
    LET memory_address == to_u16(read_register(cpu, Register_H),
                                 read_register(cpu, Register_L))
        value == read_memory(cpu, memory_address)
    IN write_register(cpu, register, value)

\* LD [r16] A
load_double_registerp_a(cpu, register_a, register_b) ==
    LET memory_address == to_u16(read_register(cpu, register_a),
                                 read_register(cpu, register_b))
        value == read_register(cpu, Register_A)
    IN write_memory(cpu, memory_address, value)

ld_bcp_a(cpu) == load_double_registerp_a(cpu, Register_B, Register_C)

\* bound to B and C as well
ld_dep_a(cpu) == load_double_registerp_a(cpu, Register_B, Register_C)

\* LD [HL+] A: the store, then inc_hl
ld_hli_a(cpu) ==
    increase_double_register(
        load_double_registerp_a(cpu, Register_H, Register_L),
        Register_H, Register_L)

\* LD [HL-] A: the store, then dec_hl
ld_hld_a(cpu) ==
    decrease_double_register(
        load_double_registerp_a(cpu, Register_H, Register_L),
        Register_H, Register_L)

\* LD r8 r8
load_register_register(cpu, register_in, register_out) ==
    write_register(cpu, register_in, read_register(cpu, register_out))

\* LD [r16] A: the address is the instruction word with its bytes swapped
ld_r16_a(cpu, instruction) ==
    LET address_b == to_u8(instruction)[1]
        address_a == to_u8(instruction)[2]
        memory_address == to_u16(address_a, address_b)
    IN write_memory(cpu, memory_address, read_register(cpu, Register_A))

\* LDH [r8] A
ldh_r8_a(cpu, instruction) ==
    LET address_a == Shr(instruction, 8) % 256
        memory_address == to_u16(255, address_a)
    IN write_memory(cpu, memory_address, read_register(cpu, Register_A))

\* LDH A [r8]
ldh_a_r8(cpu, instruction) ==
    LET address_a == Shr(instruction, 8) % 256
        memory_address == to_u16(255, address_a)
        value == read_memory(cpu, memory_address)
    IN write_register(cpu, Register_A, value)

\* LDH [C] A
ldh_c_a(cpu) ==
    LET address_a == read_register(cpu, Register_C)
        memory_address == to_u16(255, address_a)
    IN write_memory(cpu, memory_address, read_register(cpu, Register_A))

\* LDH A [C]
ldh_a_c(cpu) ==
    LET address_a == read_register(cpu, Register_C)
        memory_address == to_u16(255, address_a)
        value == read_memory(cpu, memory_address)
    IN write_register(cpu, Register_A, value)

\* NOP
nop(cpu) == cpu

\* LD r8 n8
load_register_value(cpu, instruction, register) ==
    write_register(cpu, register, Shr(instruction, 8) % 256)

\* rlca as a shift: bit 7 goes to Carry but is not fed back into bit 0.
rlca_shift(cpu) ==
    LET a     == read_register(cpu, Register_A)
        carry == Shr(a, 7)
        c1    == IF carry = 1 THEN set_flag(cpu, Flag_C)
                 ELSE reset_flag(cpu, Flag_C)
    IN write_register(c1, Register_A, Shl8(a, 1))

\* RLCA
rlca(cpu) ==
    LET a     == read_register(cpu, Register_A)
        carry == Shr(a, 7)
        c1    == IF carry = 1 THEN set_flag(cpu, Flag_C)
                 ELSE reset_flag(cpu, Flag_C)
    IN write_register(c1, Register_A, BitOr(Shl8(a, 1), carry))

\* RRCA
rrca(cpu) ==
    LET a     == read_register(cpu, Register_A)
        carry == Shl8(a, 7)
        c1    == IF carry = 128 THEN set_flag(cpu, Flag_C)
                 ELSE reset_flag(cpu, Flag_C)
    IN write_register(c1, Register_A, BitOr(Shr(a, 1), carry))

\* ------------------------------------------------------------ state machine
\* The processor value held in the variables.
Cpu ==
    [ registers       |-> registers,
      stack_pointer   |-> stack_pointer,
      program_counter |-> program_counter,
      memory          |-> memory,
      panicked        |-> panicked ]

\* One call on the processor: op names the routine, a and b its arguments
\* (0 where it has none), r what the call reports besides the processor
\* (0 where nothing), c is the processor value the routine leaves.
\* last and pre record the call and the processor value it started from.
Do(op, a, b, r, c) ==
    /\ ~panicked
    /\ steps < MaxSteps
    /\ registers'       = c.registers
    /\ stack_pointer'   = c.stack_pointer
    /\ program_counter' = c.program_counter
    /\ memory'          = c.memory
    /\ panicked'        = c.panicked
    /\ last'  = [op |-> op, a |-> a, b |-> b, r |-> r]
    /\ pre'   = Cpu
    /\ steps' = steps + 1

\* A call of a Processor method or an instruction routine outside the
\* stepping loop: the cycle counter is not involved.
Call(op, a, b, c) ==
    /\ Do(op, a, b, 0, c)
    /\ UNCHANGED cycles

\* The variables hold processor value c, nothing has been called yet.
Start(c) ==
    /\ registers       = c.registers
    /\ stack_pointer   = c.stack_pointer
    /\ program_counter = c.program_counter
    /\ memory          = c.memory
    /\ panicked        = c.panicked
    /\ cycles = 0
    /\ pre    = c
    /\ steps  = 0

Init ==
    /\ Start(new)
    /\ last = [op |-> "new", a |-> 0, b |-> 0, r |-> 0]

WriteRegister ==
    \E index \in Register, value \in ByteVals :
        Call("write_register", index, value, write_register(Cpu, index, value))

SetFlag ==
    \E flag \in Flag : Call("set_flag", flag, 0, set_flag(Cpu, flag))

ResetFlag ==
    \E flag \in Flag : Call("reset_flag", flag, 0, reset_flag(Cpu, flag))

WriteMemory ==
    \E address \in MemAddrs, value \in ByteVals :
        Call("write_memory", address, value, write_memory(Cpu, address, value))

\* cpu.stack_pointer = value (the field is public)
SetStackPointer ==
    \E value \in SpVals :
        Call("stack_pointer", value, 0, [Cpu EXCEPT !.stack_pointer = value])

\* inc_a, inc_b, inc_c, inc_d, inc_e, inc_h, inc_l
IncR8 ==
    \E register \in R8 :
        Call("increase_register", register, 0, increase_register(Cpu, register))

IncHlp == Call("inc_hlp", 0, 0, inc_hlp(Cpu))

\* dec_a, dec_b, dec_c, dec_d, dec_e, dec_h, dec_l
DecR8 ==
    \E register \in R8 :
        Call("decrease_register", register, 0, decrease_register(Cpu, register))

DecHlp == Call("dec_hlp", 0, 0, dec_hlp(Cpu))

\* inc_bc, inc_de, inc_hl
IncR16 ==
    \E p \in R16 :
        Call("increase_double_register", p[1], p[2],
             increase_double_register(Cpu, p[1], p[2]))

IncSp == Call("inc_sp", 0, 0, inc_sp(Cpu))

\* dec_bc, dec_de, dec_hl
DecR16 ==
    \E p \in R16 :
        Call("decrease_double_register", p[1], p[2],
             decrease_double_register(Cpu, p[1], p[2]))

DecSp == Call("dec_sp", 0, 0, dec_sp(Cpu))

Rlca == Call("rlca", 0, 0, rlca(Cpu))

Rrca == Call("rrca", 0, 0, rrca(Cpu))

\* ld_bc_n16, ld_de_n16, ld_hl_n16
LdR16N16 ==
    \E p \in R16, instruction \in WordVals :
        /\ Do("load_double_register_value", p[1], p[2], instruction,
              load_double_register_value(Cpu, instruction, p[1], p[2]))
        /\ UNCHANGED cycles

LdSpN16 ==
    \E instruction \in WordVals :
        Call("ld_sp_n16", instruction, 0, ld_sp_n16(Cpu, instruction))

\* ld_b_b .. ld_a_a
LdR8R8 ==
    \E register_in \in R8, register_out \in R8 :
        Call("load_register_register", register_in, register_out,
             load_register_register(Cpu, register_in, register_out))

\* ld_b_n8 .. ld_a_n8
LdR8N8 ==
    \E register \in R8, instruction \in ImmVals :
        Call("load_register_value", instruction, register,
             load_register_value(Cpu, instruction, register))

LdR16A ==
    \E instruction \in ImmVals :
        Call("ld_r16_a", instruction, 0, ld_r16_a(Cpu, instruction))

LdhR8A ==
    \E instruction \in ImmVals :
        Call("ldh_r8_a", instruction, 0, ldh_r8_a(Cpu, instruction))

LdhAR8 ==
    \E instruction \in ImmVals :
        Call("ldh_a_r8", instruction, 0, ldh_a_r8(Cpu, instruction))

LdhCA == Call("ldh_c_a", 0, 0, ldh_c_a(Cpu))

LdhAC == Call("ldh_a_c", 0, 0, ldh_a_c(Cpu))

\* ld_hlp_a, ld_hlp_b, ld_hlp_c, ld_hlp_d, ld_hlp_e, ld_hlp_h, ld_hlp_l
LdHlpR8 ==
    \E register \in R8 :
        Call("load_hlp_register", register, 0, load_hlp_register(Cpu, register))

LdHlpN8 ==
    \E instruction \in WordVals :
        Call("ld_hlp_n8", instruction, 0, ld_hlp_n8(Cpu, instruction))

\* ld_a_hlp, ld_b_hlp, ld_c_hlp, ld_d_hlp, ld_e_hlp, ld_h_hlp, ld_l_hlp
LdR8Hlp ==
    \E register \in R8 :
        Call("load_register_hlp", register, 0, load_register_hlp(Cpu, register))

LdBcpA == Call("ld_bcp_a", 0, 0, ld_bcp_a(Cpu))

LdDepA == Call("ld_dep_a", 0, 0, ld_dep_a(Cpu))

LdHliA == Call("ld_hli_a", 0, 0, ld_hli_a(Cpu))

LdHldA == Call("ld_hld_a", 0, 0, ld_hld_a(Cpu))

LoadCartridge ==
    \E file \in CartridgeFiles :
        /\ Do("load_cartridge", file, 0, load_cartridge_panic(file),
              load_cartridge(Cpu, file))
        /\ UNCHANGED cycles

Next ==
    \/ WriteRegister
    \/ SetFlag
    \/ ResetFlag
    \/ WriteMemory
    \/ SetStackPointer
    \/ IncR8
    \/ IncHlp
    \/ DecR8
    \/ DecHlp
    \/ IncR16
    \/ IncSp
    \/ DecR16
    \/ DecSp
    \/ Rlca
    \/ Rrca
    \/ LdR16N16
    \/ LdSpN16
    \/ LdR8R8
    \/ LdR8N8
    \/ LdR16A
    \/ LdhR8A
    \/ LdhAR8
    \/ LdhCA
    \/ LdhAC

Spec == Init /\ [][Next]_vars

\* ------------------------------------------------------------------ claims
\* Readings of the state the claims are stated in.
FlagIsSet(f, flag) == BitAnd(f, flag) = flag

RegF == registers[Register_F]

PreF == pre.registers[Register_F]

\* pack(high, low) of the specification, as arithmetic
Pack(hi, lo) == hi * 256 + lo

IncDec8Ops == {"increase_register", "decrease_register", "inc_hlp", "dec_hlp"}

\* C1: in every reachable state the low nibble of register F is zero
\* (F & 0x0F = 0), whichever of set_flag, reset_flag, write_register(F, v)
\* and the instruction routines ran.
C1_FLowNibbleZero == BitAnd(RegF, 15) = 0

\* C2: set_flag(f) sets bit f of F, reset_flag(f) clears it, and each leaves
\* the other three flag bits of F as they were before the call.
C2_SetResetFlagFrame ==
    /\ last.op = "set_flag" =>
          /\ FlagIsSet(RegF, last.a)
          /\ \A g \in Flag \ {last.a} : FlagIsSet(RegF, g) = FlagIsSet(PreF, g)
    /\ last.op = "reset_flag" =>
          /\ ~FlagIsSet(RegF, last.a)
          /\ \A g \in Flag \ {last.a} : FlagIsSet(RegF, g) = FlagIsSet(PreF, g)

\* C3: after INC r8 completes on operand x, Half-Carry = ((x & 0xF) + 1 > 0xF),
\* Zero = (result = 0) and Subtract is clear.
C3_IncFlags ==
    (last.op = "increase_register" /\ ~panicked) =>
        /\ FlagIsSet(RegF, Flag_H) = (BitAnd(pre.registers[last.a], 15) + 1 > 15)
        /\ FlagIsSet(RegF, Flag_Z) = (registers[last.a] = 0)
        /\ ~FlagIsSet(RegF, Flag_N)

\* C4: after DEC r8 completes on operand x, Half-Carry = ((x & 0xF) = 0) taken
\* on the operand before the decrement, Subtract is set and Zero = (result = 0).
C4_DecFlags ==
    (last.op = "decrease_register" /\ ~panicked) =>
        /\ FlagIsSet(RegF, Flag_H) = (BitAnd(pre.registers[last.a], 15) = 0)
        /\ FlagIsSet(RegF, Flag_N)
        /\ FlagIsSet(RegF, Flag_Z) = (registers[last.a] = 0)

\* C5: the Carry flag after an 8-bit increment or decrement
\* (increase_register, decrease_register, inc_hlp, dec_hlp) equals the Carry
\* flag before it.
C5_IncDecKeepsCarry ==
    last.op \in IncDec8Ops =>
        FlagIsSet(RegF, Flag_C) = FlagIsSet(PreF, Flag_C)

\* C6: no increment or decrement routine aborts; INC/DEC r8 and INC/DEC [HL]
\* leave (x + 1) mod 256 / (x - 1) mod 256, INC/DEC of a register pair or SP
\* leave (v + 1) mod 65536 / (v - 1) mod 65536.
C6_IncDecWraps ==
    LET hl == Pack(pre.registers[Register_H], pre.registers[Register_L])
        rr == Pack(pre.registers[last.a], pre.registers[last.b])
    IN
    /\ last.op \in IncDec8Ops \cup {"increase_double_register", "inc_sp",
                                     "decrease_double_register", "dec_sp"}
          => ~panicked
    /\ last.op = "increase_register" =>
          registers[last.a] = (pre.registers[last.a] + 1) % 256
    /\ last.op = "decrease_register" =>
          registers[last.a] = (pre.registers[last.a] - 1) % 256
    /\ last.op = "inc_hlp" =>
          read_memory(Cpu, hl) = (read_memory(pre, hl) + 1) % 256
    /\ last.op = "dec_hlp" =>
          read_memory(Cpu, hl) = (read_memory(pre, hl) - 1) % 256
    /\ last.op = "increase_double_register" =>
          Pack(registers[last.a], registers[last.b]) = (rr + 1) % 65536
    /\ last.op = "decrease_double_register" =>
          Pack(registers[last.a], registers[last.b]) = (rr - 1) % 65536
    /\ last.op = "inc_sp" => stack_pointer = (pre.stack_pointer + 1) % 65536
    /\ last.op = "dec_sp" => stack_pointer = (pre.stack_pointer - 1) % 65536

\* C7: on a pair holding v < 0xFFFF increase_double_register leaves v + 1,
\* on a pair holding v > 0 decrease_double_register leaves v - 1 (the carry
\* or borrow crosses from the low into the high register), and register F and
\* every register outside the pair are unchanged; inc_sp / dec_sp do the same
\* to the stack pointer and change no register.
C7_DoubleRegisterIncDec ==
    LET v == Pack(pre.registers[last.a], pre.registers[last.b])
        others == Register \ {last.a, last.b}
    IN
    /\ (last.op = "increase_double_register" /\ v < 65535) =>
          /\ ~panicked
          /\ Pack(registers[last.a], registers[last.b]) = v + 1
          /\ \A r \in others : registers[r] = pre.registers[r]
    /\ (last.op = "decrease_double_register" /\ v > 0) =>
          /\ ~panicked
          /\ Pack(registers[last.a], registers[last.b]) = v - 1
          /\ \A r \in others : registers[r] = pre.registers[r]
    /\ (last.op = "inc_sp" /\ pre.stack_pointer < 65535) =>
          /\ ~panicked
          /\ stack_pointer = pre.stack_pointer + 1
          /\ registers = pre.registers
    /\ (last.op = "dec_sp" /\ pre.stack_pointer > 0) =>
          /\ ~panicked
          /\ stack_pointer = pre.stack_pointer - 1
          /\ registers = pre.registers

\* BC = 0x00FF has been incremented to 0x0100.
C7_Witness ==
    /\ last.op = "increase_double_register"
    /\ last.a = Register_B /\ last.b = Register_C
    /\ pre.registers[Register_B] = 0 /\ pre.registers[Register_C] = 255
    /\ registers[Register_B] = 1 /\ registers[Register_C] = 0
    /\ ~panicked

\* C8: after rlca Carry equals bit 7 of the old A, after rrca Carry equals
\* bit 0 of the old A, and in both Zero, Subtract and Half-Carry are clear.
C8_RotateFlags ==
    LET a == pre.registers[Register_A] IN
    /\ last.op = "rlca" =>
          /\ FlagIsSet(RegF, Flag_C) = (a \div 128 = 1)
          /\ ~FlagIsSet(RegF, Flag_Z)
          /\ ~FlagIsSet(RegF, Flag_N)
          /\ ~FlagIsSet(RegF, Flag_H)
    /\ last.op = "rrca" =>
          /\ FlagIsSet(RegF, Flag_C) = (a % 2 = 1)
          /\ ~FlagIsSet(RegF, Flag_Z)
          /\ ~FlagIsSet(RegF, Flag_N)
          /\ ~FlagIsSet(RegF, Flag_H)

\* C9: rlca leaves A = ((a << 1) mod 256) | (a >> 7), rrca leaves
\* A = (a >> 1) | ((a & 1) << 7), and no register other than A and F changes.
C9_RotateValue ==
    LET a == pre.registers[Register_A]
        others == Register \ {Register_A, Register_F}
    IN
    /\ last.op = "rlca" =>
          /\ ~panicked
          /\ registers[Register_A] = ((a * 2) % 256) + (a \div 128)
          /\ \A r \in others : registers[r] = pre.registers[r]
    /\ last.op = "rrca" =>
          /\ ~panicked
          /\ registers[Register_A] = (a \div 2) + (a % 2) * 128
          /\ \A r \in others : registers[r] = pre.registers[r]

\* A = 0b11001100 has been rotated left to 0b10011001.
C9_Witness ==
    /\ last.op = "rlca"
    /\ pre.registers[Register_A] = 204
    /\ registers[Register_A] = 153
    /\ ~panicked

\* Working-RAM addresses whose echo is compared: 0xC000, 0xC010, 0xDDFF.
EchoedAddrs == {49152, 49168, 56831}

\* C10: after any sequence of write_memory calls, every working-RAM address a
\* in [0xC000, 0xDDFF] reads the same as its echo address a + 0x2000.
C10_EchoAliasesWorkRam ==
    \A a \in EchoedAddrs : read_memory(Cpu, a) = read_memory(Cpu, a + 8192)

\* C11: cartridge ROM is read-only on the bus: a write_memory(a, v) with a in
\* [0x0000, 0x7FFF], made directly or by the store of INC [HL], leaves
\* read_memory(a) as it was before the write.
C11_RomReadOnly ==
    LET hl == Pack(pre.registers[Register_H], pre.registers[Register_L]) IN
    /\ (last.op = "write_memory" /\ last.a <= 32767) =>
          read_memory(Cpu, last.a) = read_memory(pre, last.a)
    /\ (last.op = "inc_hlp" /\ hl <= 32767) =>
          read_memory(Cpu, hl) = read_memory(pre, hl)

\* A fresh processor, write_memory calls and load_cartridge calls.
NextCart ==
    \/ WriteMemory
    \/ LoadCartridge

SpecCart == Init /\ [][NextCart]_vars

\* The failure kinds of the specification, as the panics of load_cartridge.
CorruptCartridge == "Cartridge corrupted"

InvalidCartridgeType == {"invalid cartridge type", "invalid cartridge RAM type"}

UnsupportedMapper == "assertion failed: bytes[0x147] == 0"

Loaded == last.op = "load_cartridge" /\ last.a.open /\ last.a.read

ChecksumMismatch ==
    HeaderChecksum(last.a.bytes) # byte_at(last.a.bytes, 333)

ProcessorUnchanged ==
    /\ registers = pre.registers
    /\ memory = pre.memory
    /\ stack_pointer = pre.stack_pointer
    /\ program_counter = pre.program_counter

\* C12 as claimed: for every cartridge byte buffer whose header checksum
\* differs from the byte at 0x014D, load_cartridge ends in CorruptCartridge
\* and every memory cell, register, SP and PC is as before the call.
C12_ChecksumMismatchRejected ==
    (Loaded /\ ChecksumMismatch) =>
        /\ panicked
        /\ last.r = CorruptCartridge
        /\ ProcessorUnchanged

\* C12 amended: for every cartridge byte buffer whose title bytes
\* 0x0134 .. 0x0142 are valid UTF-8 and whose header checksum differs from
\* the byte at 0x014D, load_cartridge, when it can print the title to the
\* standard output, ends in CorruptCartridge and every memory cell,
\* register, SP and PC is as before the call.
C12_ValidTitleChecksumMismatchRejected ==
    (Loaded /\ tittle_ok(last.a.bytes) /\ last.a.stdout /\ ChecksumMismatch) =>
        /\ panicked
        /\ last.r = CorruptCartridge
        /\ ProcessorUnchanged

\* A buffer with an ASCII title, a wrong checksum and a non-zero ROM byte was
\* rejected over a memory that held a non-zero cell in the copied range.
C12_Witness ==
    /\ Loaded
    /\ byte_at(last.a.bytes, 308) = 65
    /\ ChecksumMismatch
    /\ byte_at(last.a.bytes, 256) = 171
    /\ read_memory(pre, 256) \notin {0, 171}
    /\ last.a.stdout
    /\ last.r = CorruptCartridge
    /\ panicked

\* C13: after load_cartridge succeeds, every address of ROM bank 0 reads the
\* buffer byte at that offset (compared at 0x0100 and at 0x3FFF).
C13_RomBank0Loaded ==
    (Loaded /\ last.r = "none") =>
        \A a \in {256, 16383} : read_memory(Cpu, a) = byte_at(last.a.bytes, a)

\* C14: with a valid header checksum (a title that passes and a standard
\* output that can be written), the type byte
\* decides the failure before the RAM-size byte is looked at: a recognized
\* type other than 0x00 gives UnsupportedMapper and an unrecognized type gives
\* InvalidCartridgeType whatever the RAM size is; only with type 0x00 does an
\* unrecognized RAM size give InvalidCartridgeType.
C14_TypeDecidesBeforeRamSize ==
    LET ty  == byte_at(last.a.bytes, 327)
        ram == byte_at(last.a.bytes, 329)
    IN
    (Loaded /\ tittle_ok(last.a.bytes) /\ last.a.stdout /\ ~ChecksumMismatch) =>
        /\ (ty \in cartridge_types \ {0}) => last.r = UnsupportedMapper
        /\ (ty \notin cartridge_types) => last.r = "invalid cartridge type"
        /\ (ty = 0 /\ ram \notin ram_sizes) => last.r \in InvalidCartridgeType
        /\ (ty = 0 /\ ram \in ram_sizes) => last.r = "none"

\* The endian codec on its own: an input is drawn, the function is applied.
\* Every pair of bytes and every 16-bit word is an input.
InitCodec ==
    /\ Start(new)
    /\ last \in {[op |-> "u8_u8", a |-> hi, b |-> lo, r |-> 0] :
                    hi \in 0 .. 255, lo \in 0 .. 255}
           \cup {[op |-> "u16", a |-> w, b |-> 0, r |-> 0] : w \in 0 .. 65535}

ToU16 ==
    /\ last.op = "u8_u8"
    /\ last' = [last EXCEPT !.op = "to_u16", !.r = to_u16(last.a, last.b)]
    /\ UNCHANGED <<registers, stack_pointer, program_counter, memory,
                   panicked, cycles, pre, steps>>

ToU8 ==
    /\ last.op = "u16"
    /\ last' = [last EXCEPT !.op = "to_u8", !.r = to_u8(last.a)]
    /\ UNCHANGED <<registers, stack_pointer, program_counter, memory,
                   panicked, cycles, pre, steps>>

NextCodec ==
    \/ ToU16
    \/ ToU8

SpecCodec == InitCodec /\ [][NextCodec]_vars

\* C16: to_u8(to_u16(hi, lo)) = (hi, lo) for all bytes, to_u16(to_u8(w)) = w
\* for every 16-bit word, and to_u16 puts its first argument in bits 15..8
\* and its second in bits 7..0.
C16_CodecRoundTrip ==
    /\ last.op = "to_u16" =>
          /\ to_u8(last.r) = <<last.a, last.b>>
          /\ last.r \div 256 = last.a
          /\ last.r % 256 = last.b
    /\ last.op = "to_u8" =>
          /\ to_u16(last.r[1], last.r[2]) = last.a
          /\ last.r[1] \in 0 .. 255
          /\ last.r[2] \in 0 .. 255

\* to_u16(0xAB, 0xCD) has been computed and is 0xABCD.
C16_Witness ==
    /\ last.op = "to_u16"
    /\ last.a = 171 /\ last.b = 205
    /\ last.r = 43981

\* C17: write_register(r, v) makes read_register(r) return v and leaves every
\* other register, the stack pointer, the program counter and all memory as
\* they were; a register-pair write (LD r16,n16, INC/DEC r16) changes only
\* the two registers of the pair.
C17_RegisterWriteFrame ==
    /\ last.op = "write_register" =>
          /\ ~panicked
          /\ read_register(Cpu, last.a) = last.b
          /\ \A r \in Register \ {last.a} : registers[r] = pre.registers[r]
          /\ stack_pointer = pre.stack_pointer
          /\ program_counter = pre.program_counter
          /\ memory = pre.memory
    /\ last.op \in {"load_double_register_value", "increase_double_register",
                    "decrease_double_register"} =>
          /\ \A r \in Register \ {last.a, last.b} :
                 registers[r] = pre.registers[r]
          /\ stack_pointer = pre.stack_pointer
          /\ program_counter = pre.program_counter
          /\ memory = pre.memory

\* B = 0xCC has been written while A already held 0xFF.
C17_Witness ==
    /\ last.op = "write_register"
    /\ last.a = Register_B /\ last.b = 204
    /\ pre.registers[Register_A] = 255
    /\ registers[Register_A] = 255
    /\ registers[Register_B] = 204

\* C20: load_double_register_value(w, hi, lo) sets hi to the low byte of w
\* and lo to the high byte of w (w = 0xCDAB gives the pair 0xABCD), ld_sp_n16
\* sets SP to the same byte-swapped value, and flags and all other registers
\* are unchanged.
C20_LoadImmediate16 ==
    /\ last.op = "load_double_register_value" =>
          /\ ~panicked
          /\ registers[last.a] = last.r % 256
          /\ registers[last.b] = last.r \div 256
          /\ \A r \in Register \ {last.a, last.b} :
                 registers[r] = pre.registers[r]
    /\ last.op = "ld_sp_n16" =>
          /\ ~panicked
          /\ stack_pointer = (last.a % 256) * 256 + (last.a \div 256)
          /\ registers = pre.registers

\* ld_bc_n16(0xCDAB) has left B = 0xAB and C = 0xCD.
C20_Witness ==
    /\ last.op = "load_double_register_value"
    /\ last.a = Register_B /\ last.b = Register_C
    /\ last.r = 52651
    /\ registers[Register_B] = 171 /\ registers[Register_C] = 205

\* The instructions that address memory through a register pair, started
\* on a processor whose pairs and memory were set by write_register and
\* write_memory: A is 0x00 or 0xAB, BC is 0x0000 or 0x0100, DE is 0x0000 or
\* 0x0001, HL is 0x0000, 0x0100 or 0x0001, and the cells 0x0100 and 0x0001
\* hold 0x00 or a value of their own.
InitMem ==
    \E a \in {0, 171}, b \in {0, 1}, e \in {0, 1},
       hl \in {<<0, 0>>, <<1, 0>>, <<0, 1>>}, m1 \in {0, 2}, m2 \in {0, 5} :
        /\ Start([new EXCEPT
               !.registers = [new.registers EXCEPT
                                 ![Register_A] = a, ![Register_B] = b,
                                 ![Register_E] = e,
                                 ![Register_H] = hl[1], ![Register_L] = hl[2]],
               !.memory = NonZeroCells(256 :> m1 @@ 1 :> m2)])
        /\ last = [op |-> "new", a |-> 0, b |-> 0, r |-> 0]

NextMem ==
    \/ IncHlp
    \/ DecHlp
    \/ LdHlpR8
    \/ LdHlpN8
    \/ LdR8Hlp
    \/ LdBcpA
    \/ LdDepA
    \/ LdHliA
    \/ LdHldA
    \/ LdR16A
    \/ LdhR8A
    \/ LdhAR8
    \/ LdhCA
    \/ LdhAC

SpecMem == InitMem /\ [][NextMem]_vars

\* Every cell except address a reads as before the call.
OnlyCellChanged(a) ==
    \A x \in (DOMAIN memory \cup DOMAIN pre.memory) \ {a} :
        read_memory(Cpu, x) = read_memory(pre, x)

\* C18: every instruction that addresses memory through HL uses the address
\* pack(H, L), H being the high byte: the stores change no other cell and
\* leave their value there, LD r8,[HL] reads that cell, and inc_hlp and
\* dec_hlp modify that same cell.
C18_HlAddress ==
    LET hl == Pack(pre.registers[Register_H], pre.registers[Register_L]) IN
    /\ last.op \in {"inc_hlp", "dec_hlp", "load_hlp_register", "ld_hlp_n8",
                    "ld_hli_a", "ld_hld_a"} => OnlyCellChanged(hl)
    /\ (last.op = "inc_hlp" /\ ~panicked) =>
          read_memory(Cpu, hl) = read_memory(pre, hl) + 1
    /\ (last.op = "dec_hlp" /\ ~panicked) =>
          read_memory(Cpu, hl) = read_memory(pre, hl) - 1
    /\ last.op = "load_hlp_register" =>
          read_memory(Cpu, hl) = pre.registers[last.a]
    /\ last.op = "ld_hlp_n8" => read_memory(Cpu, hl) = last.a \div 256
    /\ last.op \in {"ld_hli_a", "ld_hld_a"} =>
          read_memory(Cpu, hl) = pre.registers[Register_A]
    /\ last.op = "load_register_hlp" =>
          registers[last.a] = read_memory(pre, hl)

\* C19: ld_bcp_a stores A at memory[pack(B, C)] and ld_dep_a stores A at
\* memory[pack(D, E)]; neither changes another cell or any register.
C19_LdR16pA ==
    LET bc == Pack(pre.registers[Register_B], pre.registers[Register_C])
        de == Pack(pre.registers[Register_D], pre.registers[Register_E])
    IN
    /\ last.op = "ld_bcp_a" =>
          /\ read_memory(Cpu, bc) = pre.registers[Register_A]
          /\ OnlyCellChanged(bc)
          /\ registers = pre.registers
    /\ last.op = "ld_dep_a" =>
          /\ read_memory(Cpu, de) = pre.registers[Register_A]
          /\ OnlyCellChanged(de)
          /\ registers = pre.registers

\* ------------------------------------------- decode-dispatch-execute loop
\* The source declares the descriptor type (operation, bytes, cycles) and
\* the program counter, and sketches the table in a comment; the loop
\* itself is not written.  The table holds the first eight sketched entries,
\* the ones whose routine exists, with the routine's name as in the source
\* below the sketch; the step follows the specification's description of it.
INSTRUCTIONS ==
    <<[operation |-> "nop",       bytes |-> 1, cycles |-> 4],
      [operation |-> "ld_bc_n16", bytes |-> 3, cycles |-> 12],
      [operation |-> "ld_bcp_a",  bytes |-> 1, cycles |-> 8],
      [operation |-> "inc_bc",    bytes |-> 1, cycles |-> 8],
      [operation |-> "inc_b",     bytes |-> 1, cycles |-> 8],
      [operation |-> "dec_b",     bytes |-> 1, cycles |-> 4],
      [operation |-> "ld_b_n8",   bytes |-> 2, cycles |-> 8],
      [operation |-> "rlca",      bytes |-> 1, cycles |-> 4]>>

\* The descriptor of an opcode byte, the table being indexed from 0.
Bound(opcode) == opcode + 1 \in DOMAIN INSTRUCTIONS

Descriptor(opcode) == INSTRUCTIONS[opcode + 1]

\* (descriptor.operation)(cpu, instruction)
Invoke(operation, cpu, instruction) ==
    CASE operation = "nop"       -> nop(cpu)
      [] operation = "ld_bc_n16" ->
            load_double_register_value(cpu, instruction, Register_B, Register_C)
      [] operation = "ld_bcp_a"  -> ld_bcp_a(cpu)
      [] operation = "inc_bc"    ->
            increase_double_register(cpu, Register_B, Register_C)
      [] operation = "inc_b"     -> increase_register(cpu, Register_B)
      [] operation = "dec_b"     -> decrease_register(cpu, Register_B)
      [] operation = "ld_b_n8"   -> load_register_value(cpu, instruction, Register_B)
      [] operation = "rlca"      -> rlca(cpu)

\* The immediate value of the instruction at pc: none for one byte, the
\* following byte for two, and for three the two following bytes packed
\* by the endian codec with the second of them as the high byte.
Operand(cpu, bytes) ==
    LET pc == cpu.program_counter
        first  == read_memory(cpu, (pc + 1) % 65536)
        second == read_memory(cpu, (pc + 2) % 65536)
    IN CASE bytes = 1 -> 0
         [] bytes = 2 -> to_u16(0, first)
         [] bytes = 3 -> to_u16(second, first)

\* One step: fetch, look up, fetch the immediate, advance the program
\* counter, invoke the routine, add the base cycle cost.  An opcode with no
\* descriptor is a fault that stops the stepping; a routine that aborts
\* does so before the cost is added.
Step ==
    LET opcode == read_memory(Cpu, program_counter) IN
    IF ~Bound(opcode)
    THEN /\ Do("step", opcode, 0, cycles, panic(Cpu))
         /\ UNCHANGED cycles
    ELSE LET d == Descriptor(opcode)
             instruction == Operand(Cpu, d.bytes)
             advanced == [Cpu EXCEPT
                 !.program_counter = (program_counter + d.bytes) % 65536]
             c == Invoke(d.operation, advanced, instruction)
         IN /\ Do("step", opcode, instruction, cycles, c)
            /\ cycles' = IF c.panicked THEN cycles ELSE cycles + d.cycles

\* A processor about to step through a short program: the program counter
\* at 0x0000 or 0xC000, there an opcode byte 0x00..0x08 followed by 0x00 or
\* 0xCD and then 0x00 or 0xAB, A 0x00 or 0xAB, B 0x00 or 0x01.
InitStep ==
    \E pc \in {0, 49152}, opcode \in 0..8, first \in {0, 205},
       second \in {0, 171}, a \in {0, 171}, b \in {0, 1} :
        /\ Start([new EXCEPT
               !.registers = [new.registers EXCEPT
                                 ![Register_A] = a, ![Register_B] = b],
               !.program_counter = pc,
               !.memory = NonZeroCells(pc :> opcode @@ (pc + 1) :> first
                                       @@ (pc + 2) :> second)])
        /\ last = [op |-> "new", a |-> 0, b |-> 0, r |-> 0]

NextStep == Step

SpecStep == InitStep /\ [][NextStep]_vars

\* C15, stated of the step as the specification describes it (the source
\* has no step to state it of): a step on an opcode of length 3 followed by
\* the bytes 0xCD, 0xAB
\* hands the routine the operand 0xABCD (the routine bound to it, LD BC n16,
\* leaves the operand's low byte in B and its high byte in C), moves the
\* program counter on by exactly 3 and adds the descriptor's cycle cost to
\* the cycle counter; on an opcode of length 1 the operand is 0 and the
\* program counter moves on by 1.
C15_StepOperandAndAdvance ==
    (last.op = "step" /\ Bound(last.a)) =>
        LET d == Descriptor(last.a)
            pc == pre.program_counter
            first  == read_memory(pre, pc + 1)
            second == read_memory(pre, pc + 2)
        IN /\ d.bytes = 3 =>
                /\ last.b = Pack(second, first)
                /\ (first = 205 /\ second = 171) => last.b = 43981
                /\ registers[Register_B] = last.b % 256
                /\ registers[Register_C] = last.b \div 256
                /\ program_counter = pc + 3
                /\ cycles = last.r + d.cycles
           /\ d.bytes = 1 =>
                /\ last.b = 0
                /\ program_counter = pc + 1

\* A step has run the three-byte opcode 0x01 followed by 0xCD, 0xAB.
C15_Witness ==
    /\ last.op = "step"
    /\ last.a = 1
    /\ read_memory(pre, pre.program_counter + 1) = 205
    /\ read_memory(pre, pre.program_counter + 2) = 171
    /\ last.b = 43981
    /\ program_counter = pre.program_counter + 3
    /\ cycles = last.r + 12

====
